---- MODULE Spec2Model ----
(***************************************************************************)
(* A model of the two documentation utilities of motoko-base:              *)
(*   doc/module_graph.py  the dependency-graph exporter (list_deps, the    *)
(*                        main loop over glob's files, the printed graph); *)
(*   doc/module_nav.py    the navigation indexer (sort_name, names.sort,   *)
(*                        the printed xref lines).                         *)
(* Strings the code takes apart are sequences of pieces: a tool output is  *)
(* a sequence of tokens, whitespace runs " " and newlines "\n"; a module   *)
(* file path is a sequence of characters.                                  *)
(***************************************************************************)
EXTENDS Integers, Sequences, FiniteSets, TLC

VARIABLES tool, files, idx, stack, edges, invoked, nonzero, out, pc,
          run, firstOut, firstFiles,
          navFiles, navIdx, names, navOut, navPc

graphVars == <<tool, files, idx, stack, edges, invoked, nonzero, out, pc,
               run, firstOut, firstFiles>>
navVars == <<navFiles, navIdx, names, navOut, navPc>>
vars == <<graphVars, navVars>>

(* ------------------------------ bounds -------------------------------- *)

\* Total number of lines over all the tool outputs of one tool response.
MaxLines == 3
\* Depth of the list_deps recursion the model follows (never reached by the
\* code as written: a frame below the top always holds a key of edges).
MaxDepth == 6
\* Number of source files glob hands to the nav indexer.
MaxNavFiles == 4

(* ------------------- module_graph.py: data and helpers ----------------- *)

\* The source files of the tree (paths as moc prints them).
Files == {"A.mo", "B.mo", "C.mo"}

\* line == "mo:prim" (module_graph.py:20): the whole line, one token.
MoPrim == <<"mo:prim">>

\* Every path list_deps can be called with.
Paths == Files \cup {"mo:prim"}

WS == " "
NL == "\n"

\* The lines bin/moc --print-deps may print: a bare path, an import
\* followed by its resolved path, the bare sentinel, the sentinel behind
\* leading whitespace, an empty line and an all-whitespace line.
LineSet == { <<"A.mo">>, <<"B.mo">>, <<"mo:base/C", WS, "C.mo">>,
             MoPrim, <<WS, "mo:prim">>, <<>>, <<WS>> }

SeqsUpTo(S, n) == UNION { [1..k -> S] : k \in 0..n }

\* What the tool writes for a sequence of lines: each line and a newline.
RECURSIVE Unlines(_)
Unlines(ls) == IF ls = <<>> THEN <<>>
               ELSE Head(ls) \o <<NL>> \o Unlines(Tail(ls))

\* str.splitlines(): cut at each newline; no last empty line.
RECURSIVE SplitlinesFrom(_, _)
SplitlinesFrom(s, cur) ==
    IF s = <<>> THEN (IF cur = <<>> THEN <<>> ELSE <<cur>>)
    ELSE IF Head(s) = NL THEN <<cur>> \o SplitlinesFrom(Tail(s), <<>>)
    ELSE SplitlinesFrom(Tail(s), Append(cur, Head(s)))

Splitlines(s) == SplitlinesFrom(s, <<>>)

\* str.split(): the whitespace-separated tokens of a line.
Split(line) == SelectSeq(line, LAMBDA x : x # WS)

\* line.split()[-1]
LastToken(line) == Split(line)[Len(Split(line))]

\* dict lookup: whether path is a key of e.
HasKey(e, path) == \E k \in 1..Len(e) : e[k].path = path

\* The test skipped: every call queries the tool.
InEdgesNever(path, e) == FALSE

\* `path in edges` (module_graph.py:16): the test creates no key.
InEdges(path, e) == HasKey(e, path)

\* edges[path].append(dep_path) with the dependency put first.
EdgesAppendFront(e, path, dep) ==
    IF HasKey(e, path)
    THEN [k \in 1..Len(e) |->
            IF e[k].path = path THEN [e[k] EXCEPT !.deps = <<dep>> \o @]
            ELSE e[k]]
    ELSE Append(e, [path |-> path, deps |-> <<dep>>])

\* edges[path].append(dep_path): the defaultdict creates the key, at the
\* end of the insertion order, on the first access only.
EdgesAppend(e, path, dep) ==
    IF HasKey(e, path)
    THEN [k \in 1..Len(e) |->
            IF e[k].path = path THEN [e[k] EXCEPT !.deps = Append(@, dep)]
            ELSE e[k]]
    ELSE Append(e, [path |-> path, deps |-> <<dep>>])

Header == <<"digraph Base {">>
Footer == <<"}">>

\* f"  \"{path}\" -> \"{dep_path}\""
EdgeLine(path, dep) == <<"  \"", path, "\" -> \"", dep, "\"">>

RECURSIVE EdgeLines(_)
EdgeLines(e) ==
    IF e = <<>> THEN <<>>
    ELSE [k \in 1..Len(e[1].deps) |-> EdgeLine(e[1].path, e[1].deps[k])]
         \o EdgeLines(Tail(e))

\* The three prints of module_graph.py:29-33.
Document(e) == <<Header>> \o EdgeLines(e) \o <<Footer>>

Frame(path) == [path |-> path, at |-> "call", lines |-> <<>>]

Top == stack[Len(stack)]
Pop == SubSeq(stack, 1, Len(stack) - 1)
SetTop(f) == [stack EXCEPT ![Len(stack)] = f]

(* ----------------------- module_graph.py: Init ------------------------- *)

Perms(S) == { s \in [1..Cardinality(S) -> S] :
                \A a, b \in 1..Cardinality(S) : a # b => s[a] # s[b] }

\* The standard output of bin/moc --print-deps for each path, given the
\* lines printed for the three files. moc resolves no file named mo:prim
\* and prints nothing for it.
ToolOf(la, lb, lc) ==
    [p \in Paths |->
        IF p = "A.mo" THEN Unlines(la)
        ELSE IF p = "B.mo" THEN Unlines(lb)
        ELSE IF p = "C.mo" THEN Unlines(lc)
        ELSE <<>>]

\* The tool responses with at most MaxLines lines in all.
ToolResponses ==
    UNION { UNION { { ToolOf(la, lb, lc) :
                        lc \in SeqsUpTo(LineSet, MaxLines - Len(la) - Len(lb)) } :
                    lb \in SeqsUpTo(LineSet, MaxLines - Len(la)) } :
            la \in SeqsUpTo(LineSet, MaxLines) }

\* The files glob finds under src/: C.mo lies outside it and is reached
\* as a dependency only. glob's order is unspecified.
Discovered == {"A.mo", "B.mo"}

NavIdle ==
    /\ navFiles = <<>>
    /\ navIdx = 1
    /\ names = <<>>
    /\ navOut = <<>>
    /\ navPc = "idle"

GraphInit ==
    /\ tool \in ToolResponses
    /\ \E S \in SUBSET Discovered : S # {} /\ files \in Perms(S)
    /\ idx = 1
    /\ stack = <<>>
    /\ edges = <<>>
    /\ invoked = [p \in Paths |-> 0]
    /\ nonzero = FALSE
    /\ out = <<>>
    /\ pc = "main"
    /\ run = 1
    /\ firstOut = <<>>
    /\ firstFiles = <<>>

Init == GraphInit /\ NavIdle

(* --------------------- module_graph.py: the steps ---------------------- *)

ExitCodes == {0, 1}

Running == pc = "main" /\ stack # <<>>

\* for file in glob.glob(...): list_deps(file)
MainLoop ==
    /\ pc = "main"
    /\ stack = <<>>
    /\ idx <= Len(files)
    /\ stack' = <<Frame(files[idx])>>
    /\ idx' = idx + 1
    /\ UNCHANGED <<tool, files, edges, invoked, nonzero, out, pc,
                   run, firstOut, firstFiles, navVars>>

\* if path in edges: return
MemoReturn ==
    /\ Running
    /\ Top.at = "call"
    /\ InEdges(Top.path, edges)
    /\ stack' = Pop
    /\ UNCHANGED <<tool, files, idx, edges, invoked, nonzero, out, pc,
                   run, firstOut, firstFiles, navVars>>

\* output = subprocess.run(["bin/moc", "--print-deps", path], ...): the
\* exit status rc is not looked at; the loop starts on stdout's lines.
RunTool ==
    /\ Running
    /\ Top.at = "call"
    /\ ~InEdges(Top.path, edges)
    /\ \E rc \in ExitCodes : nonzero' = (nonzero \/ rc # 0)
    /\ invoked' = [invoked EXCEPT ![Top.path] = @ + 1]
    /\ stack' = SetTop([Top EXCEPT !.at = "for",
                                   !.lines = Splitlines(tool[Top.path])])
    /\ UNCHANGED <<tool, files, idx, edges, out, pc,
                   run, firstOut, firstFiles, navVars>>

InLoop == Running /\ Top.at = "for" /\ Top.lines # <<>>

\* if line == "mo:prim": continue
SkipPrim ==
    /\ InLoop
    /\ Head(Top.lines) = MoPrim
    /\ stack' = SetTop([Top EXCEPT !.lines = Tail(@)])
    /\ UNCHANGED <<tool, files, idx, edges, invoked, nonzero, out, pc,
                   run, firstOut, firstFiles, navVars>>

\* The line without a token is passed over.
SplitFailsSkips ==
    /\ InLoop
    /\ Head(Top.lines) # MoPrim
    /\ Split(Head(Top.lines)) = <<>>
    /\ stack' = SetTop([Top EXCEPT !.lines = Tail(@)])
    /\ UNCHANGED <<tool, files, idx, edges, invoked, nonzero, out, pc,
                   run, firstOut, firstFiles, navVars>>

\* line.split()[-1] on a line without a token: IndexError, not caught
\* anywhere; the interpreter unwinds and exits before any print.
SplitFails ==
    /\ InLoop
    /\ Head(Top.lines) # MoPrim
    /\ Split(Head(Top.lines)) = <<>>
    /\ pc' = "error"
    /\ stack' = <<>>
    /\ UNCHANGED <<tool, files, idx, edges, invoked, nonzero, out,
                   run, firstOut, firstFiles, navVars>>

\* The edge to a path that is already a key is left out.
RecordDepSkipSeen ==
    /\ InLoop
    /\ Head(Top.lines) # MoPrim
    /\ Split(Head(Top.lines)) # <<>>
    /\ Len(stack) < MaxDepth
    /\ LET dep_path == LastToken(Head(Top.lines))
       IN /\ edges' = IF InEdges(dep_path, edges) THEN edges
                      ELSE EdgesAppend(edges, Top.path, dep_path)
          /\ stack' = Append(SetTop([Top EXCEPT !.lines = Tail(@)]),
                             Frame(dep_path))
    /\ UNCHANGED <<tool, files, idx, invoked, nonzero, out, pc,
                   run, firstOut, firstFiles, navVars>>

\* dep_path = line.split()[-1]; edges[path].append(dep_path);
\* list_deps(dep_path)
RecordDep ==
    /\ InLoop
    /\ Head(Top.lines) # MoPrim
    /\ Split(Head(Top.lines)) # <<>>
    /\ Len(stack) < MaxDepth
    /\ LET dep_path == LastToken(Head(Top.lines))
       IN /\ edges' = EdgesAppend(edges, Top.path, dep_path)
          /\ stack' = Append(SetTop([Top EXCEPT !.lines = Tail(@)]),
                             Frame(dep_path))
    /\ UNCHANGED <<tool, files, idx, invoked, nonzero, out, pc,
                   run, firstOut, firstFiles, navVars>>

\* The for loop of list_deps is over: the call returns.
Return ==
    /\ Running
    /\ Top.at = "for"
    /\ Top.lines = <<>>
    /\ stack' = Pop
    /\ UNCHANGED <<tool, files, idx, edges, invoked, nonzero, out, pc,
                   run, firstOut, firstFiles, navVars>>

\* print("digraph Base {"); the edge lines; print("}")
PrintGraph ==
    /\ pc = "main"
    /\ stack = <<>>
    /\ idx > Len(files)
    /\ out' = Document(edges)
    /\ pc' = "done"
    /\ UNCHANGED <<tool, files, idx, stack, edges, invoked, nonzero,
                   run, firstOut, firstFiles, navVars>>

Next ==
    \/ MainLoop
    \/ MemoReturn
    \/ RunTool
    \/ SkipPrim
    \/ SplitFails
    \/ RecordDep
    \/ Return
    \/ PrintGraph

Spec == Init /\ [][Next]_vars

(* ------------------- module_nav.py: data and helpers ------------------- *)

\* The source files glob may find, as sequences of characters.
NavFileSet ==
    { <<"s", "r", "c", "/", "A", "r", "r", "a", "y", ".", "m", "o">>,
      <<"s", "r", "c", "/", "A", "r", "r", "a", "y", "2", ".", "m", "o">>,
      <<"s", "r", "c", "/", "A", "r", "r", "a", "y", "1", "0", ".", "m", "o">>,
      <<"s", "r", "c", "/", "B", "u", "f", "f", "e", "r", "1", ".", "m", "o">>,
      <<"s", "r", "c", "/", "B", "u", "f", "f", "e", "r", "0", "1", ".", "m", "o">>,
      <<"s", "r", "c", "/", "a", "/", "A", "r", "r", "a", "y", "2", ".", "m", "o">>,
      <<"s", "r", "c", "/", "x", ".", "1", ".", "m", "o">> }

\* Code points of the characters that occur.
Ord(c) ==
    CASE
         c = "." -> 46
      [] c = "/" -> 47
      [] c = "0" -> 48
      [] c = "1" -> 49
      [] c = "2" -> 50
      [] c = "A" -> 65
      [] c = "B" -> 66
      [] c = "a" -> 97
      [] c = "c" -> 99
      [] c = "e" -> 101
      [] c = "f" -> 102
      [] c = "m" -> 109
      [] c = "o" -> 111
      [] c = "r" -> 114
      [] c = "s" -> 115
      [] c = "u" -> 117
      [] c = "x" -> 120
      [] c = "y" -> 121

Digits == <<"0", "1", "2", "3", "4", "5", "6", "7", "8", "9">>

IsDigit(c) == \E d \in 1..10 : Digits[d] = c

DigitValue(c) == (CHOOSE d \in 1..10 : Digits[d] = c) - 1

\* The last position of character c in s, 0 when there is none (rfind).
LastIndex(s, c) ==
    LET at == { k \in 1..Len(s) : s[k] = c }
    IN IF at = {} THEN 0 ELSE CHOOSE k \in at : \A j \in at : j <= k

\* os.path.basename(file)
Basename(file) == SubSeq(file, LastIndex(file, "/") + 1, Len(file))

\* os.path.splitext(b)[0] of a name without directory: cut at the last
\* dot unless only dots stand before it.
Splitext(b) ==
    LET dot == LastIndex(b, ".")
    IN IF dot > 0 /\ \E k \in 1..(dot - 1) : b[k] # "."
       THEN SubSeq(b, 1, dot - 1)
       ELSE b

\* module = os.path.splitext(os.path.basename(file))[0]
ModuleName(file) == Splitext(Basename(file))

\* name.rstrip('0123456789')
RECURSIVE RstripDigits(_)
RstripDigits(name) ==
    IF name # <<>> /\ IsDigit(name[Len(name)])
    THEN RstripDigits(SubSeq(name, 1, Len(name) - 1))
    ELSE name

\* int(tail) of a sequence of ASCII digits
RECURSIVE IntFrom(_, _)
IntFrom(digits, acc) ==
    IF digits = <<>> THEN acc
    ELSE IntFrom(Tail(digits), 10 * acc + DigitValue(Head(digits)))

\* The whole name as the key: plain string order.
sort_name_plain(name) == <<name, 0>>

\* sort_name (module_nav.py:13-20)
sort_name(name) ==
    LET head == RstripDigits(name)
        tail == SubSeq(name, Len(head) + 1, Len(name))
    IN <<head, IF tail # <<>> THEN IntFrom(tail, 0) ELSE 0>>

\* Python's < on str: by code point, a proper prefix first.
RECURSIVE StrLess(_, _)
StrLess(a, b) ==
    IF b = <<>> THEN FALSE
    ELSE IF a = <<>> THEN TRUE
    ELSE IF Head(a) # Head(b) THEN Ord(Head(a)) < Ord(Head(b))
    ELSE StrLess(Tail(a), Tail(b))

\* Python's < on the (head, tail) tuples.
KeyLess(k1, k2) ==
    IF k1[1] # k2[1] THEN StrLess(k1[1], k2[1]) ELSE k1[2] < k2[2]

\* One insertion of a stable sort: x goes before the first element whose
\* key is greater than x's.
RECURSIVE Insert(_, _)
Insert(sorted, x) ==
    IF sorted = <<>> THEN <<x>>
    ELSE IF KeyLess(sort_name(x), sort_name(Head(sorted)))
         THEN <<x>> \o sorted
         ELSE <<Head(sorted)>> \o Insert(Tail(sorted), x)

\* names.sort(key=sort_name): list.sort is stable.
RECURSIVE SortNames(_)
SortNames(ns) ==
    IF ns = <<>> THEN <<>>
    ELSE Insert(SortNames(SubSeq(ns, 1, Len(ns) - 1)), ns[Len(ns)])

TopLine == <<"* xref:stdlib-intro.adoc[Motoko Base Library]">>

\* f"** xref:./{name}.adoc[{name}]"
XrefLine(name) == <<"** xref:./", name, ".adoc[", name, "]">>

(* ----------------------- module_nav.py: the steps ---------------------- *)

\* The sequences of distinct files glob may return.
GlobResults ==
    { fs \in SeqsUpTo(NavFileSet, MaxNavFiles) :
        \A a, b \in 1..Len(fs) : a # b => fs[a] # fs[b] }

GraphIdle ==
    /\ tool = [p \in Paths |-> <<>>]
    /\ files = <<>>
    /\ idx = 1
    /\ stack = <<>>
    /\ edges = <<>>
    /\ invoked = [p \in Paths |-> 0]
    /\ nonzero = FALSE
    /\ out = <<>>
    /\ pc = "idle"
    /\ run = 1
    /\ firstOut = <<>>
    /\ firstFiles = <<>>

NavInit ==
    /\ navFiles \in GlobResults
    /\ navIdx = 1
    /\ names = <<>>
    /\ navOut = <<>>
    /\ navPc = "collect"

\* for file in glob.glob(...): names.append(module)
NavCollect ==
    /\ navPc = "collect"
    /\ navIdx <= Len(navFiles)
    /\ names' = Append(names, ModuleName(navFiles[navIdx]))
    /\ navIdx' = navIdx + 1
    /\ UNCHANGED <<navFiles, navOut, navPc, graphVars>>

\* names.sort(key=sort_name)
NavSort ==
    /\ navPc = "collect"
    /\ navIdx > Len(navFiles)
    /\ names' = SortNames(names)
    /\ navPc' = "print"
    /\ UNCHANGED <<navFiles, navIdx, navOut, graphVars>>

\* The top-level line and one xref line per name.
NavPrint ==
    /\ navPc = "print"
    /\ navOut' = <<TopLine>> \o [k \in 1..Len(names) |-> XrefLine(names[k])]
    /\ navPc' = "done"
    /\ UNCHANGED <<navFiles, navIdx, names, graphVars>>

NavNext == NavCollect \/ NavSort \/ NavPrint

InitNav == GraphIdle /\ NavInit

SpecNav == InitNav /\ [][NavNext]_vars

(* ------------------ a second run on the unchanged tree ----------------- *)

Range(f) == { f[k] : k \in 1..Len(f) }

\* The exporter is started again on the same tree and the same tool; glob
\* may hand the files over in another order. The first run's output and
\* order are kept for comparison.
Rerun ==
    /\ pc \in {"done", "error"}
    /\ run = 1
    /\ run' = 2
    /\ firstOut' = out
    /\ firstFiles' = files
    /\ files' \in Perms(Range(files))
    /\ idx' = 1
    /\ stack' = <<>>
    /\ edges' = <<>>
    /\ invoked' = [p \in Paths |-> 0]
    /\ nonzero' = FALSE
    /\ out' = <<>>
    /\ pc' = "main"
    /\ UNCHANGED <<tool, navVars>>

NextOrder == Next \/ Rerun

SpecOrder == Init /\ [][NextOrder]_vars

(* ----------------------- what the tool reports ------------------------- *)

ToolLines(p) == Splitlines(tool[p])

\* A line without a whitespace-separated token that is not the sentinel.
Malformed(line) == line # MoPrim /\ Split(line) = <<>>

\* The dependencies the tool reports for p: the last token of each line
\* that has one.
Reported(p) ==
    { LastToken(ToolLines(p)[k]) :
        k \in { j \in 1..Len(ToolLines(p)) : Split(ToolLines(p)[j]) # <<>> } }

\* The reported dependencies other than the primitive-module sentinel.
RealDeps(p) == Reported(p) \ {"mo:prim"}

RECURSIVE ReachFrom(_)
ReachFrom(S) ==
    LET T == S \cup UNION { RealDeps(p) : p \in S }
    IN IF T = S THEN S ELSE ReachFrom(T)

\* The discovered files and what is reachable from them.
Reached == ReachFrom(Range(files))

\* p lies on a cycle of the dependency relation.
OnCycle(p) == p \in ReachFrom(RealDeps(p))

CycleFiles == { p \in Reached : OnCycle(p) }

KeyCount(e, p) == Cardinality({ k \in 1..Len(e) : e[k].path = p })

\* The (source, target) pairs of the edge lines of a printed document.
PrintedEdges(o) ==
    { <<o[k][2], o[k][4]>> : k \in { j \in 1..Len(o) : Len(o[j]) = 5 } }

\* The (source, target) pairs recorded in the mapping.
RecordedEdges(e) ==
    UNION { { <<e[k].path, e[k].deps[j]>> : j \in 1..Len(e[k].deps) } :
            k \in 1..Len(e) }

\* Some invocation so far was handed a tool output with a malformed line.
MalformedQueried ==
    \E p \in Paths :
        /\ invoked[p] > 0
        /\ \E k \in 1..Len(ToolLines(p)) : Malformed(ToolLines(p)[k])

(* -------------- the run with a cycle, under fair scheduling ------------ *)

\* The interpreter runs its single thread to the end and every tool
\* invocation returns: a step that can be taken is taken.
InitCycle == Init /\ CycleFiles # {}

SpecCycle == InitCycle /\ [][Next]_vars /\ WF_vars(Next)

(* ------------------------------ claims --------------------------------- *)

\* C1: when the exporter finishes, the printed edges are exactly the pairs
\* (p, d) with p discovered or reachable from a discovered file and d a
\* dependency the tool reports for p other than the sentinel mo:prim.
C1_ExactEdges ==
    pc = "done" =>
        PrintedEdges(out) = { <<p, d>> \in Reached \X Paths : d \in RealDeps(p) }

\* C2: after the traversal every discovered file is a key of edges, exactly
\* once, also when its tool output is empty or holds only the sentinel.
C2_EveryFileAKey ==
    pc = "done" => \A k \in 1..Len(files) : KeyCount(edges, files[k]) = 1

\* C3: the tool is invoked at most once for each distinct path.
C3_AtMostOneQuery == \A p \in Paths : invoked[p] <= 1

\* C4: with a cycle among the reached files the traversal terminates, and
\* afterwards every file on the cycle is a key of edges exactly once (a run
\* ends with an error only on a malformed line).
C4_CycleTerminates ==
    <>( \/ pc = "done" /\ \A p \in CycleFiles : KeyCount(edges, p) = 1
        \/ pc = "error" /\ MalformedQueried )

C4_Witness ==
    /\ pc = "done"
    /\ {"A.mo", "B.mo"} \subseteq CycleFiles
    /\ "B.mo" \in RealDeps("A.mo")
    /\ "A.mo" \in RealDeps("B.mo")
    /\ \A p \in CycleFiles : KeyCount(edges, p) = 1

\* C5: mo:prim is never the target of a recorded or printed edge, whatever
\* tokens or whitespace stand before it on its line.
C5_NoPrimEdge ==
    /\ \A e \in RecordedEdges(edges) : e[2] # "mo:prim"
    /\ \A e \in PrintedEdges(out) : e[2] # "mo:prim"

\* C6: once an invocation of the tool has exited with a non-zero status the
\* exporter aborts and prints nothing.
C6_NonzeroAborts == nonzero => (pc # "done" /\ out = <<>>)

\* C8: a line without a token in the output for a reached file aborts the
\* exporter, and nothing is printed, whatever was traversed before; the
\* exporter aborts for no other reason.
C8_MalformedAborts ==
    /\ MalformedQueried => (pc # "done" /\ out = <<>>)
    /\ pc = "error" => (MalformedQueried /\ out = <<>>)

C8_Witness == pc = "error" /\ Len(edges) >= 2 /\ out = <<>>

\* C9: two runs on the same files and the same tool response, in any two
\* discovery orders, print the same set of edges (and both print, or
\* neither does).
C9_OrderInsensitive ==
    (run = 2 /\ pc \in {"done", "error"}) =>
        /\ PrintedEdges(out) = PrintedEdges(firstOut)
        /\ (out = <<>>) <=> (firstOut = <<>>)

C9_Witness ==
    /\ run = 2
    /\ pc = "done"
    /\ files # firstFiles
    /\ out # firstOut
    /\ PrintedEdges(out) = PrintedEdges(firstOut)

\* The dependencies of the lines of p that are not the line mo:prim, in the
\* tool's order.
ExpectedDeps(p) ==
    LET ls == SelectSeq(ToolLines(p), LAMBDA l : l # MoPrim)
    IN [j \in 1..Len(ls) |-> LastToken(ls[j])]

\* C10: at the end, the sequence recorded for each key p is the sequence of
\* dependencies the tool emitted for p, in the tool's order, without the
\* lines that are the sentinel mo:prim: nothing duplicated, nothing from
\* another file in between.
C10_DepsInToolOrder ==
    pc = "done" =>
        \A k \in 1..Len(edges) : edges[k].deps = ExpectedDeps(edges[k].path)

\* A.mo depends on B.mo and then on C.mo, and B.mo has dependencies of its
\* own, recorded between A.mo's two.
C10_Witness ==
    /\ pc = "done"
    /\ Len(edges) >= 2
    /\ edges[1].path = "A.mo"
    /\ edges[1].deps = <<"B.mo", "C.mo">>
    /\ edges[2].path = "B.mo"

(* The claim's own reading of the sort key, apart from sort_name. *)

\* How many ASCII digits end the name.
DigitRun(name) ==
    CHOOSE k \in 0..Len(name) :
        /\ \A j \in (Len(name) - k + 1)..Len(name) : IsDigit(name[j])
        /\ k < Len(name) => ~IsDigit(name[Len(name) - k])

HeadOf(name) == SubSeq(name, 1, Len(name) - DigitRun(name))

RECURSIVE Pow10(_)
Pow10(n) == IF n = 0 THEN 1 ELSE 10 * Pow10(n - 1)

RECURSIVE SumDigits(_, _)
SumDigits(name, k) ==
    IF k = 0 THEN 0
    ELSE DigitValue(name[Len(name) - k + 1]) * Pow10(k - 1)
         + SumDigits(name, k - 1)

TailOf(name) == SumDigits(name, DigitRun(name))

\* a comes before b in lexicographic order of code points.
LexBefore(a, b) ==
    \E k \in 1..(Len(b)) :
        /\ \A j \in 1..(k - 1) : j <= Len(a) /\ a[j] = b[j]
        /\ \/ k = Len(a) + 1
           \/ k <= Len(a) /\ Ord(a[k]) < Ord(b[k])

\* (head, tail) of a strictly before (head, tail) of b.
Before(a, b) ==
    \/ LexBefore(HeadOf(a), HeadOf(b))
    \/ HeadOf(a) = HeadOf(b) /\ TailOf(a) < TailOf(b)

Count(seq, x) == Cardinality({ k \in 1..Len(seq) : seq[k] = x })

\* The names of the printed xref lines, in printed order.
PrintedNames == [k \in 1..(Len(navOut) - 1) |-> navOut[k + 1][2]]

DerivedNames == [k \in 1..Len(navFiles) |-> ModuleName(navFiles[k])]

Array == <<"A", "r", "r", "a", "y">>
Array2 == Array \o <<"2">>
Array10 == Array \o <<"1", "0">>
Buffer1 == <<"B", "u", "f", "f", "e", "r", "1">>

\* C7: after the fixed top-level line the nav indexer prints one xref line
\* per discovered file, a permutation of the derived module names, in
\* non-decreasing order of (head, tail): head the name without its trailing
\* ASCII digits, compared lexicographically, tail those digits as a number
\* (0 when there are none), compared numerically.
C7_NavSorted ==
    navPc = "done" =>
        /\ navOut[1] = TopLine
        /\ Len(navOut) = Len(navFiles) + 1
        /\ \A k \in 1..Len(PrintedNames) :
              /\ navOut[k + 1] = XrefLine(PrintedNames[k])
              /\ Count(PrintedNames, PrintedNames[k])
                   = Count(DerivedNames, PrintedNames[k])
        /\ \A a, b \in 1..Len(PrintedNames) :
              a < b => ~Before(PrintedNames[b], PrintedNames[a])

\* glob hands over Buffer1, Array10, Array2, Array; they are printed as
\* Array, Array2, Array10, Buffer1.
C7_Witness ==
    /\ navPc = "done"
    /\ DerivedNames = <<Buffer1, Array10, Array2, Array>>
    /\ PrintedNames = <<Array, Array2, Array10, Buffer1>>

====
